---- MODULE Spec2Model ----
(***************************************************************************)
(* Model of krd's EnclaveClient (src/krd/enclave_client.go): the pairing   *)
(* lifecycle (Pair, Start, Stop), the typed request operations with their  *)
(* send-and-drain workers, the Outgoing Queue and the response correlator. *)
(*                                                                         *)
(* Goroutines are interleaved at the granularity of the client lock: a    *)
(* short critical section (Lock ... Unlock with no call inside) is one     *)
(* step that needs the lock free; Pair and Start keep the lock over        *)
(* several steps.  Reads and writes made without the lock are steps with   *)
(* no lock guard.                                                          *)
(***************************************************************************)
EXTENDS Integers, Sequences, FiniteSets, TLC

\* ---------------------------------------------------------------- bounds
MaxPairs == 2        \* Pair() calls in one run
MaxStops == 1        \* Stop() calls in one run
MaxReqs == 3         \* typed requests in one run
MaxRecv == 2         \* ciphertexts the enclave sends in one run
MaxBatch == 2        \* ciphertexts one ReadQueue() returns
LruCap == 2          \* lru.New(128), scaled to the number of requests
QueueCap == 2        \* the Outgoing Queue's 128, scaled likewise

\* A secret is named by a number; 0 is the nil pointer.  Secret 1 is the
\* one an earlier run of the daemon may have left in durable storage, the
\* secrets generated by Pair() are 2, 3, ...
NoSecret == 0
Secrets == 1..(MaxPairs + 2)

VARIABLES
    lock,           \* sync.Mutex of the client: "free" or the long holder
    pairingSecret,  \* ec.pairingSecret: NoSecret or a secret
    hasKey,         \* per secret object: symmetric key present
    stored,         \* durable storage (kr.SavePairing / LoadPairing / DeletePairing)
    nextSecret,     \* next secret GeneratePairingSecretAndCreateQueues returns
    bt,             \* ec.bt: "nil" or "on"
    btServices,     \* radio services registered with the driver (by secret)
    cachedMe,       \* ec.cachedMe: 0 (nil) or the secret the profile came from
    outgoingQueue,  \* ec.outgoingQueue
    crashed,        \* the process died of an unrecovered panic
    pairPc, pairRet, pairGen, pairCount, pairSaved,
    stopPc, stopSec, stopCalls,
    startPc,
    radioFault,     \* history: some radio service call returned an error
    halfSeen,       \* history: operations that read pairing state mid-rotation
    bare,           \* history: accesses to shared state made without the lock
    ioLocked,       \* history: blocking I/O calls made with the lock held
    \* ---- typed requests: the calling thread and its response channel
    nextReq,        \* next request index (kr.NewRequest gives a fresh RequestID)
    kind,           \* per request: "me", "sign" or "list"
    callerPc,       \* per request: position of the calling thread in tryRequest
    callerRes,      \* per request: what the typed operation returned
    callerGot,      \* history, per request: the value the caller read from cb
    chan,           \* per request: its channel cb (capacity 1)
    callbacks,      \* ec.requestCallbacksByRequestID, most recently used first
    \* ---- goroutines: thread r >= 1 is the worker of request r, thread 0
    \* ---- is the radio reader started by Start
    wPc, wSecret, wErr, wBatch, wLate,
    hPc, hCt, hSecret, hErr, hSnap, hDone, hFail,
    sPc, sMsg, sSecret,
    recvLeft,       \* ciphertexts the enclave may still send in this run
    sent,           \* history: per message, the secrets it was submitted under
    placed,         \* history: channel placements of Responses
    buffered,       \* history: messages appended to the Outgoing Queue
    bufferedUnder,  \* history, per message: the secret active when first buffered
    dropped,        \* history: Responses whose RequestID had no entry
    drained,        \* history, per worker: it called receive() at least once
    wPulled,        \* per worker: ciphertexts the latest ReadQueue() returned
    arn,            \* per secret object: SNS endpoint ARN set by a Response
    arnStored       \* the secret last saved with its endpoint ARN set

lifeVars == <<lock, pairingSecret, hasKey, stored, nextSecret, bt, btServices,
              cachedMe, outgoingQueue, crashed, pairPc, pairRet, pairGen,
              pairCount, pairSaved, stopPc, stopSec, stopCalls, startPc,
              radioFault, halfSeen, bare, ioLocked>>

reqVars == <<nextReq, kind, callerPc, callerRes, callerGot, chan, callbacks,
             wPc, wSecret, wErr, wBatch, wLate,
             hPc, hCt, hSecret, hErr, hSnap, hDone, hFail,
             sPc, sMsg, sSecret, recvLeft, sent, placed, buffered,
             dropped, drained, wPulled, arn, arnStored, bufferedUnder>>

vars == <<lifeVars, reqVars>>

\* ------------------------------------------------------- radio services
\* The outcomes of a radio service call: the registrations afterwards and
\* whether the call failed (DeriveUUID or the driver returned an error).

\* A faulty deactivatePairing that leaves the old service registered (the
\* variant C6_OneActiveRegistration must reject).
deactivatePairingKeeps(svcs, theBt, sec) == {[svc |-> svcs, fault |-> FALSE]}

\* deactivatePairing on the registrations svcs, given ec.bt and the secret
\* read from ec.pairingSecret.
deactivatePairing(svcs, theBt, sec) ==
    IF theBt = "nil" \/ sec = NoSecret
    THEN {[svc |-> svcs, fault |-> FALSE]}
    ELSE {[svc |-> svcs \ {sec}, fault |-> FALSE],
          [svc |-> svcs, fault |-> TRUE]}

\* activatePairing.
activatePairing(svcs, theBt, sec) ==
    IF theBt = "nil" \/ sec = NoSecret
    THEN {[svc |-> svcs, fault |-> FALSE]}
    ELSE {[svc |-> svcs \cup {sec}, fault |-> FALSE],
          [svc |-> svcs, fault |-> TRUE]}

\* The radio service call deactivatePairing / activatePairing makes, if any.
radioCalls(theBt, sec, call) == IF theBt = "nil" \/ sec = NoSecret THEN {} ELSE {call}

\* The daemon calls Start() first and serves Pair(), Stop() and the typed
\* requests once Start() has returned.
Serving == startPc = "done"

\* Pair() has made the first write of the rotation (the cached profile is
\* cleared) and not yet the last (the new service is not activated).
Rotating == pairPc \in {"deact", "gen", "activate"}

\* ------------------------------------------------------------------ Pair
\* ec.Lock(); defer ec.Unlock(); ec.cachedMe = nil
PairLock ==
    /\ ~crashed /\ UNCHANGED reqVars /\ pairPc = "idle" /\ pairCount < MaxPairs
    /\ UNCHANGED <<bare, ioLocked>>
    /\ Serving
    /\ lock = "free"
    /\ lock' = "Pair"
    /\ cachedMe' = 0
    /\ pairPc' = "deact"
    /\ pairGen' = NoSecret /\ pairSaved' = FALSE
    /\ UNCHANGED <<pairingSecret, hasKey, stored, nextSecret, bt, btServices,
                   outgoingQueue, crashed, pairRet, pairCount, stopPc, stopSec,
                   stopCalls, startPc, radioFault, halfSeen>>

\* ec.deactivatePairing() of Pair, then generatePairing's own
\* ec.deactivatePairing() and kr.DeletePairing().
PairDeactivate ==
    /\ ~crashed /\ UNCHANGED reqVars /\ pairPc = "deact"
    /\ ioLocked' = ioLocked \cup {"DeletePairing"}
                          \cup radioCalls(bt, pairingSecret, "RemoveService")
    /\ UNCHANGED bare
    /\ \E o1 \in deactivatePairing(btServices, bt, pairingSecret) :
         \E o2 \in deactivatePairing(o1.svc, bt, pairingSecret) :
            /\ btServices' = o2.svc
            /\ radioFault' = (radioFault \/ o1.fault \/ o2.fault)
    /\ stored' = NoSecret
    /\ pairPc' = "gen"
    /\ UNCHANGED <<lock, pairingSecret, hasKey, nextSecret, bt, cachedMe,
                   outgoingQueue, crashed, pairRet, pairGen, pairCount, pairSaved,
                   stopPc, stopSec, stopCalls, startPc, halfSeen>>

\* kr.GeneratePairingSecretAndCreateQueues(): on an error generatePairing
\* returns with nothing installed; otherwise it installs the new secret,
\* resets the queue and saves the pairing (a save error is only logged).
generatePairing(ok, saveOk) ==
    IF ok
    THEN /\ pairingSecret' = nextSecret
         /\ nextSecret' = nextSecret + 1
         /\ outgoingQueue' = <<>>
         /\ pairGen' = nextSecret
         /\ pairSaved' = saveOk
         /\ stored' = (IF saveOk THEN nextSecret ELSE stored)
    ELSE UNCHANGED <<pairingSecret, nextSecret, outgoingQueue, pairGen,
                     pairSaved, stored>>

PairGenerate ==
    /\ ~crashed /\ UNCHANGED reqVars /\ pairPc = "gen"
    /\ \E ok \in BOOLEAN, saveOk \in BOOLEAN : generatePairing(ok, saveOk)
    /\ ioLocked' = ioLocked \cup {"GeneratePairingSecretAndCreateQueues"}
                          \cup (IF pairingSecret' # pairingSecret THEN {"SavePairing"} ELSE {})
    /\ UNCHANGED bare
    /\ pairPc' = "activate"
    /\ UNCHANGED <<lock, hasKey, bt, btServices, cachedMe, crashed, pairRet,
                   pairCount, stopPc, stopSec, stopCalls, startPc, radioFault,
                   halfSeen>>

\* ec.activatePairing()
PairActivate ==
    /\ ~crashed /\ UNCHANGED reqVars /\ pairPc = "activate"
    /\ ioLocked' = ioLocked \cup radioCalls(bt, pairingSecret, "AddService")
    /\ UNCHANGED bare
    /\ \E o \in activatePairing(btServices, bt, pairingSecret) :
         /\ btServices' = o.svc
         /\ radioFault' = (radioFault \/ o.fault)
    /\ pairPc' = "ret"
    /\ UNCHANGED <<lock, pairingSecret, hasKey, stored, nextSecret, bt, cachedMe,
                   outgoingQueue, crashed, pairRet, pairGen, pairCount, pairSaved,
                   stopPc, stopSec, stopCalls, startPc, halfSeen>>

\* pairingSecret = *ec.pairingSecret; return (err is never assigned: nil).
\* Dereferencing a nil ec.pairingSecret panics.
pairReturn ==
    IF pairingSecret = NoSecret
    THEN /\ crashed' = TRUE
         /\ UNCHANGED <<pairRet, pairCount, lock>>
    ELSE /\ pairRet' = pairingSecret
         /\ pairCount' = pairCount + 1
         /\ lock' = "free"
         /\ UNCHANGED crashed

PairReturn ==
    /\ ~crashed /\ UNCHANGED reqVars /\ pairPc = "ret"
    /\ UNCHANGED <<bare, ioLocked>>
    /\ pairReturn
    /\ pairPc' = "idle"
    /\ UNCHANGED <<pairingSecret, hasKey, stored, nextSecret, bt, btServices,
                   cachedMe, outgoingQueue, pairGen, pairSaved, stopPc, stopSec,
                   stopCalls, startPc, radioFault, halfSeen>>

\* ------------------------------------------------------------------ Stop
\* Stop() calls deactivatePairing() without taking the lock: the reads of
\* ec.bt and ec.pairingSecret ...
StopRead ==
    /\ ~crashed /\ UNCHANGED reqVars /\ stopPc = "idle" /\ stopCalls < MaxStops
    /\ bare' = bare \cup {"Stop"}
    /\ UNCHANGED ioLocked
    /\ Serving
    /\ stopCalls' = stopCalls + 1
    /\ halfSeen' = (IF Rotating THEN halfSeen \cup {"Stop"} ELSE halfSeen)
    /\ IF bt = "nil" \/ pairingSecret = NoSecret
       THEN UNCHANGED <<stopPc, stopSec>>
       ELSE stopPc' = "remove" /\ stopSec' = pairingSecret
    /\ UNCHANGED <<lock, pairingSecret, hasKey, stored, nextSecret, bt, btServices,
                   cachedMe, outgoingQueue, crashed, pairPc, pairRet, pairGen,
                   pairCount, pairSaved, startPc, radioFault>>

\* ... and the later ec.bt.RemoveService(oldBtUUID).
StopRemove ==
    /\ ~crashed /\ UNCHANGED reqVars /\ stopPc = "remove"
    /\ UNCHANGED <<bare, ioLocked>>
    /\ \E o \in deactivatePairing(btServices, bt, stopSec) :
         /\ btServices' = o.svc
         /\ radioFault' = (radioFault \/ o.fault)
    /\ stopPc' = "idle"
    /\ UNCHANGED <<lock, pairingSecret, hasKey, stored, nextSecret, bt, cachedMe,
                   outgoingQueue, crashed, pairPc, pairRet, pairGen, pairCount,
                   pairSaved, stopSec, stopCalls, startPc, halfSeen>>

\* ----------------------------------------------------------------- Start
\* ec.Lock(); kr.LoadPairing() ...
StartLock ==
    /\ ~crashed /\ UNCHANGED reqVars /\ startPc = "idle"
    /\ ioLocked' = ioLocked \cup {"LoadPairing"}
    /\ UNCHANGED bare
    /\ lock = "free"
    /\ lock' = "Start"
    /\ \E loaded \in BOOLEAN :
         pairingSecret' = (IF loaded /\ stored # NoSecret THEN stored ELSE pairingSecret)
    /\ startPc' = "bt"
    /\ UNCHANGED <<hasKey, stored, nextSecret, bt, btServices, cachedMe,
                   outgoingQueue, crashed, pairPc, pairRet, pairGen, pairCount,
                   pairSaved, stopPc, stopSec, stopCalls, radioFault, halfSeen>>

\* ... NewBluetoothDriver(); ec.activatePairing(); ec.Unlock()
StartBluetooth ==
    /\ ~crashed /\ UNCHANGED reqVars /\ startPc = "bt"
    /\ \E ok \in BOOLEAN :
         \E o \in activatePairing(btServices, IF ok THEN "on" ELSE "nil", pairingSecret) :
            /\ bt' = (IF ok THEN "on" ELSE "nil")
            /\ btServices' = o.svc
            /\ radioFault' = (radioFault \/ o.fault)
    /\ ioLocked' = ioLocked \cup {"NewBluetoothDriver"}
                          \cup radioCalls(bt', pairingSecret, "AddService")
    /\ UNCHANGED bare
    /\ lock' = "free"
    /\ startPc' = "reqme"
    /\ UNCHANGED <<pairingSecret, hasKey, stored, nextSecret, cachedMe,
                   outgoingQueue, crashed, pairPc, pairRet, pairGen, pairCount,
                   pairSaved, stopPc, stopSec, stopCalls, halfSeen>>

\* =============================================================== requests
Reqs == 1..MaxReqs
BtThread == 0                      \* the radio reader goroutine of Start
Threads == 0..MaxReqs
StrayId == 0                       \* a RequestID no request of this run carries

\* A request's RequestID (kr.NewRequest draws a fresh random identifier).
RequestID(r) == r

\* Ciphertexts the enclave sends: a wrapped key, an encrypted Response with
\* a RequestID ("arn": one that also carries an SNS endpoint ARN), a blob
\* that fails to decrypt, one that decrypts to something that is not a
\* Response, one whose header cannot be unwrapped.
Ct(k, id) == [k |-> k, id |-> id]
Ciphertexts == {Ct("key", 0), Ct("bad", 0), Ct("malformed", 0), Ct("uerr", 0)}
                 \cup {Ct("resp", i) : i \in Reqs \cup {StrayId}}
                 \cup {Ct("arn", i) : i \in Reqs \cup {StrayId}}
BatchesOf(C, n) == UNION {[1..k -> C] : k \in 0..n}
Min(a, b) == IF a < b THEN a ELSE b

NilResponse == [nil |-> TRUE, id |-> 0]
NoValue == [nil |-> FALSE, id |-> 0 - 1]
Response(id) == [nil |-> FALSE, id |-> id]

\* ------------------------------------------------ lru.Cache (groupcache)
\* The cache as the list of its entries, most recently used first.
lruHas(c, id) == \E i \in DOMAIN c : c[i].id = id
lruValue(c, id) == (c[CHOOSE i \in DOMAIN c : c[i].id = id]).ch
\* A faulty Remove that leaves the entry in place (the variant
\* C11_DeliveryIdempotent must reject).
lruRemoveNone(c, id) == c

lruRemove(c, id) == SelectSeq(c, LAMBDA e : e.id # id)
lruTouch(c, id) ==
    IF lruHas(c, id)
    THEN <<[id |-> id, ch |-> lruValue(c, id)]>> \o lruRemove(c, id)
    ELSE c
lruAdd(c, id, ch) ==
    LET n == <<[id |-> id, ch |-> ch]>> \o lruRemove(c, id)
    IN  IF Len(n) > LruCap THEN SubSeq(n, 1, LruCap) ELSE n

\* A read of pairing state under the lock cannot fall inside Pair().
Observe(who) == IF Rotating THEN halfSeen \cup {who} ELSE halfSeen

\* ------------------------------------------------------- the calling thread
\* RequestMe / RequestSignature / RequestList up to the select of
\* tryRequest: kr.NewRequest(), make(chan, 1), go sendRequestAndReceiveResponses.
RequestBegin(r, k) ==
    /\ ~crashed
    /\ Serving
    /\ r = nextReq /\ r \in Reqs
    /\ nextReq' = r + 1
    /\ kind' = [kind EXCEPT ![r] = k]
    /\ callerPc' = [callerPc EXCEPT ![r] = "waiting"]
    /\ wPc' = [wPc EXCEPT ![r] = "getps"]
    /\ UNCHANGED <<lock, pairingSecret, hasKey, stored, nextSecret, bt,
                   btServices, cachedMe, outgoingQueue, crashed, pairPc,
                   pairRet, pairGen, pairCount, pairSaved, stopPc,
                   stopSec, stopCalls, startPc, radioFault, halfSeen,
                   bare, ioLocked, callerRes, callerGot, chan, callbacks,
                   wSecret, wErr, wBatch, wLate, hPc, hCt, hSecret, hErr,
                   hSnap, hDone, hFail, sPc, sMsg, sSecret, recvLeft,
                   sent, placed, buffered, dropped, drained, wPulled,
                   arn, arnStored, bufferedUnder>>

\* case <-time.After(timeout): err = ErrTimeout
CallerTimeout(r) ==
    /\ ~crashed
    /\ callerPc[r] = "waiting"
    /\ callerRes' = [callerRes EXCEPT ![r] = "timeout"]
    /\ callerPc' = [callerPc EXCEPT ![r] = "done"]
    /\ UNCHANGED <<lock, pairingSecret, hasKey, stored, nextSecret, bt,
                   btServices, cachedMe, outgoingQueue, crashed, pairPc,
                   pairRet, pairGen, pairCount, pairSaved, stopPc,
                   stopSec, stopCalls, startPc, radioFault, halfSeen,
                   bare, ioLocked, nextReq, kind, callerGot, chan,
                   callbacks, wPc, wSecret, wErr, wBatch, wLate, hPc,
                   hCt, hSecret, hErr, hSnap, hDone, hFail, sPc, sMsg,
                   sSecret, recvLeft, sent, placed, buffered, dropped,
                   drained, wPulled, arn, arnStored, bufferedUnder>>

\* What the typed operation returns for the value v read from cb: err stays
\* nil; a nil response gives a nil result.
typedResult(v) == IF v.nil THEN "empty" ELSE "ok"

\* case response = <-cb, and the typed operation's "if response != nil".
CallerReceive(r) ==
    /\ ~crashed
    /\ callerPc[r] = "waiting"
    /\ chan[r] # <<>>
    /\ LET v == Head(chan[r]) IN
         /\ chan' = [chan EXCEPT ![r] = Tail(chan[r])]
         /\ callerRes' = [callerRes EXCEPT ![r] = typedResult(v)]
         /\ callerGot' = [callerGot EXCEPT ![r] = v]
         /\ callerPc' = [callerPc EXCEPT ![r] =
                IF ~v.nil /\ kind[r] = "me" THEN "cache" ELSE "done"]
    /\ UNCHANGED <<lock, pairingSecret, hasKey, stored, nextSecret, bt,
                   btServices, cachedMe, outgoingQueue, crashed, pairPc,
                   pairRet, pairGen, pairCount, pairSaved, stopPc,
                   stopSec, stopCalls, startPc, radioFault, halfSeen,
                   bare, ioLocked, nextReq, kind, callbacks, wPc,
                   wSecret, wErr, wBatch, wLate, hPc, hCt, hSecret, hErr,
                   hSnap, hDone, hFail, sPc, sMsg, sSecret, recvLeft,
                   sent, placed, buffered, dropped, drained, wPulled,
                   arn, arnStored, bufferedUnder>>

\* RequestMe: client.Lock(); client.cachedMe = &meResponse.Me; client.Unlock()
CallerCache(r) ==
    /\ ~crashed
    /\ callerPc[r] = "cache"
    /\ lock = "free"
    /\ cachedMe' = r
    /\ callerPc' = [callerPc EXCEPT ![r] = "done"]
    /\ UNCHANGED <<lock, pairingSecret, hasKey, stored, nextSecret, bt,
                   btServices, outgoingQueue, crashed, pairPc, pairRet,
                   pairGen, pairCount, pairSaved, stopPc, stopSec,
                   stopCalls, startPc, radioFault, halfSeen, bare,
                   ioLocked, nextReq, kind, callerRes, callerGot, chan,
                   callbacks, wPc, wSecret, wErr, wBatch, wLate, hPc,
                   hCt, hSecret, hErr, hSnap, hDone, hFail, sPc, sMsg,
                   sSecret, recvLeft, sent, placed, buffered, dropped,
                   drained, wPulled, arn, arnStored, bufferedUnder>>

\* --------------------------------------------------------------- sendMessage
\* sendMessage returns err to its caller: the drain loop of handleCiphertext
\* (err is kept, the loop goes on) or sendRequestAndReceiveResponses (a
\* *SendQueued or nil goes on to the receive loop, anything else returns).
SReturn(t, e) ==
    /\ sPc' = [sPc EXCEPT ![t] = "idle"]
    /\ IF hPc[t] = "drain"
       THEN /\ hErr' = [hErr EXCEPT ![t] = e]
            /\ hFail' = [hFail EXCEPT ![t] = IF e = "nil" THEN @ ELSE @ \cup {sMsg[t]}]
            /\ UNCHANGED wPc
       ELSE /\ wPc' = [wPc EXCEPT ![t] = IF e \in {"nil", "queued"} THEN "recv" ELSE "done"]
            /\ UNCHANGED <<hErr, hFail>>

SCont(t, pc) ==
    /\ sPc' = [sPc EXCEPT ![t] = pc]
    /\ UNCHANGED <<hErr, hFail, wPc>>

\* pairingSecret := client.getPairingSecret()
SendGetSecret(t) ==
    /\ ~crashed
    /\ sPc[t] = "getps"
    /\ lock = "free"
    /\ halfSeen' = Observe("send")
    /\ sSecret' = [sSecret EXCEPT ![t] = pairingSecret]
    /\ IF pairingSecret = NoSecret THEN SReturn(t, "err") ELSE SCont(t, "encrypt")
    /\ UNCHANGED <<lock, pairingSecret, hasKey, stored, nextSecret, bt,
                   btServices, cachedMe, outgoingQueue, crashed, pairPc,
                   pairRet, pairGen, pairCount, pairSaved, stopPc,
                   stopSec, stopCalls, startPc, radioFault, bare,
                   ioLocked, nextReq, kind, callerPc, callerRes,
                   callerGot, chan, callbacks, wSecret, wErr, wBatch,
                   wLate, hPc, hCt, hSecret, hSnap, hDone, sMsg,
                   recvLeft, sent, placed, buffered, dropped, drained,
                   wPulled, arn, arnStored, bufferedUnder>>

\* pairingSecret.EncryptMessage(message): ErrWaitingForKey while the secret
\* has no symmetric key, otherwise a ciphertext or another error.
SendEncrypt(t) ==
    /\ ~crashed
    /\ sPc[t] = "encrypt"
    /\ IF ~hasKey[sSecret[t]]
       THEN SCont(t, "enqueue")
       ELSE \E ok \in BOOLEAN : IF ok THEN SCont(t, "write") ELSE SReturn(t, "err")
    /\ UNCHANGED <<lock, pairingSecret, hasKey, stored, nextSecret, bt,
                   btServices, cachedMe, outgoingQueue, crashed, pairPc,
                   pairRet, pairGen, pairCount, pairSaved, stopPc,
                   stopSec, stopCalls, startPc, radioFault, halfSeen,
                   bare, ioLocked, nextReq, kind, callerPc, callerRes,
                   callerGot, chan, callbacks, wSecret, wErr, wBatch,
                   wLate, hPc, hCt, hSecret, hSnap, hDone, sMsg, sSecret,
                   recvLeft, sent, placed, buffered, dropped, drained,
                   wPulled, arn, arnStored, bufferedUnder>>

\* A faulty append that ignores the capacity (the variant C12_QueueCapped
\* must reject).
enqueueAlways(q, m) == Append(q, m)

\* if len(client.outgoingQueue) < 128 { append }
enqueue(q, m) == IF Len(q) < QueueCap THEN Append(q, m) ELSE q

\* client.Lock(); ...append...; client.Unlock(); err = &SendQueued{err}
SendEnqueue(t) ==
    /\ ~crashed
    /\ sPc[t] = "enqueue"
    /\ lock = "free"
    /\ outgoingQueue' = enqueue(outgoingQueue, sMsg[t])
    /\ buffered' = (IF Len(outgoingQueue) < QueueCap
                    THEN buffered \cup {sMsg[t]} ELSE buffered)
    /\ bufferedUnder' = (IF Len(outgoingQueue) < QueueCap /\ sMsg[t] \notin buffered
                         THEN [bufferedUnder EXCEPT ![sMsg[t]] = pairingSecret]
                         ELSE bufferedUnder)
    /\ SReturn(t, "queued")
    /\ UNCHANGED <<lock, pairingSecret, hasKey, stored, nextSecret, bt,
                   btServices, cachedMe, crashed, pairPc, pairRet,
                   pairGen, pairCount, pairSaved, stopPc, stopSec,
                   stopCalls, startPc, radioFault, halfSeen, bare,
                   ioLocked, nextReq, kind, callerPc, callerRes,
                   callerGot, chan, callbacks, wSecret, wErr, wBatch,
                   wLate, hPc, hCt, hSecret, hSnap, hDone, sMsg, sSecret,
                   recvLeft, sent, placed, dropped, drained, wPulled,
                   arn, arnStored>>

\* go func() { client.bt.Write(ciphertext) }(): a method call on the nil
\* interface client.bt panics in the new goroutine and ends the process,
\* before or after pairingSecret.SendMessage(message) was reached.
btWrite(theBt) == IF theBt = "nil" THEN "panic" ELSE "written"

SendWrite(t) ==
    /\ ~crashed
    /\ sPc[t] = "write"
    /\ IF btWrite(bt) = "panic"
       THEN /\ crashed' = TRUE
            /\ \E reached \in BOOLEAN :
                 sent' = (IF reached
                          THEN [sent EXCEPT ![sMsg[t]] = Append(@, sSecret[t])]
                          ELSE sent)
            /\ UNCHANGED <<sPc, hErr, hFail, wPc>>
       ELSE /\ UNCHANGED crashed
            /\ sent' = [sent EXCEPT ![sMsg[t]] = Append(@, sSecret[t])]
            /\ \E ok \in BOOLEAN : SReturn(t, IF ok THEN "nil" ELSE "err")
    /\ UNCHANGED <<lock, pairingSecret, hasKey, stored, nextSecret, bt,
                   btServices, cachedMe, outgoingQueue, pairPc, pairRet,
                   pairGen, pairCount, pairSaved, stopPc, stopSec,
                   stopCalls, startPc, radioFault, halfSeen, bare,
                   ioLocked, nextReq, kind, callerPc, callerRes,
                   callerGot, chan, callbacks, wSecret, wErr, wBatch,
                   wLate, hPc, hCt, hSecret, hSnap, hDone, sMsg, sSecret,
                   recvLeft, placed, buffered, dropped, drained, wPulled,
                   arn, arnStored, bufferedUnder>>

\* ----------------------------------------------------------- handleCiphertext
\* handleCiphertext returns err to receive() of the worker, which keeps it as
\* its own err unless it is kr.ErrWaitingForKey and goes on with the batch,
\* or to the radio reader, which drops it.
receiveErr(old, e) == IF e = "waiting" THEN old ELSE e

HReturn(t, e) ==
    IF t = BtThread
    THEN /\ hPc' = [hPc EXCEPT ![t] = "idle"]
         /\ hErr' = [hErr EXCEPT ![t] = "nil"]
         /\ UNCHANGED <<hCt, wPc, wErr, wBatch>>
    ELSE LET rest == Tail(wBatch[t]) IN
         /\ wErr' = [wErr EXCEPT ![t] = receiveErr(wErr[t], e)]
         /\ wBatch' = [wBatch EXCEPT ![t] = rest]
         /\ hErr' = [hErr EXCEPT ![t] = "nil"]
         /\ IF rest = <<>>
            THEN /\ hPc' = [hPc EXCEPT ![t] = "idle"]
                 /\ wPc' = [wPc EXCEPT ![t] = "check"]
                 /\ UNCHANGED hCt
            ELSE /\ hPc' = [hPc EXCEPT ![t] = "getps"]
                 /\ hCt' = [hCt EXCEPT ![t] = Head(rest)]
                 /\ UNCHANGED wPc

HCont(t, pc) ==
    /\ hPc' = [hPc EXCEPT ![t] = pc]
    /\ UNCHANGED <<hCt, hErr, wPc, wErr, wBatch>>

\* pairingSecret := client.getPairingSecret()
HGetSecret(t) ==
    /\ ~crashed
    /\ hPc[t] = "getps"
    /\ lock = "free"
    /\ halfSeen' = Observe("ingest")
    /\ hSecret' = [hSecret EXCEPT ![t] = pairingSecret]
    /\ HCont(t, "unwrap")
    /\ UNCHANGED <<lock, pairingSecret, hasKey, stored, nextSecret, bt,
                   btServices, cachedMe, outgoingQueue, crashed, pairPc,
                   pairRet, pairGen, pairCount, pairSaved, stopPc,
                   stopSec, stopCalls, startPc, radioFault, bare,
                   ioLocked, nextReq, kind, callerPc, callerRes,
                   callerGot, chan, callbacks, wSecret, wLate, hSnap,
                   hDone, hFail, sPc, sMsg, sSecret, recvLeft, sent,
                   placed, buffered, dropped, drained, wPulled, arn,
                   arnStored, bufferedUnder>>

\* The secret the ciphertext in hand was made for: a worker reads the
\* cloud-relay queue of the secret it took at its start
\* (pairingSecret.ReadQueue()); what the radio reader is handed either fits
\* the secret in use or is one of the failing kinds.
ctSecret(t) == IF t = BtThread THEN hSecret[t] ELSE wSecret[t]

\* pairingSecret.UnwrapKeyIfPresent(ciphertext), the nil check and the
\* ProtoError return.  A key wrapped for another secret cannot be unwrapped.
HUnwrap(t) ==
    /\ ~crashed
    /\ hPc[t] = "unwrap"
    /\ IF \/ hSecret[t] = NoSecret \/ hCt[t].k = "uerr"
          \/ (hCt[t].k = "key" /\ ctSecret(t) # hSecret[t])
       THEN HReturn(t, "err") /\ UNCHANGED hasKey
       ELSE IF hCt[t].k = "key"
       THEN hasKey' = [hasKey EXCEPT ![hSecret[t]] = TRUE] /\ HCont(t, "swap")
       ELSE HCont(t, "decrypt") /\ UNCHANGED hasKey
    /\ UNCHANGED <<lock, pairingSecret, stored, nextSecret, bt, btServices,
                   cachedMe, outgoingQueue, crashed, pairPc, pairRet,
                   pairGen, pairCount, pairSaved, stopPc, stopSec,
                   stopCalls, startPc, radioFault, halfSeen, bare,
                   ioLocked, nextReq, kind, callerPc, callerRes,
                   callerGot, chan, callbacks, wSecret, wLate, hSecret,
                   hSnap, hDone, hFail, sPc, sMsg, sSecret, recvLeft,
                   sent, placed, buffered, dropped, drained, wPulled,
                   arn, arnStored, bufferedUnder>>

\* client.Lock(); queue := client.outgoingQueue; client.outgoingQueue = [][]byte{};
\* client.Unlock()
HSwap(t) ==
    /\ ~crashed
    /\ hPc[t] = "swap"
    /\ lock = "free"
    /\ hSnap' = [hSnap EXCEPT ![t] = outgoingQueue]
    /\ hDone' = [hDone EXCEPT ![t] = <<>>]
    /\ hFail' = [hFail EXCEPT ![t] = {}]
    /\ outgoingQueue' = <<>>
    /\ HCont(t, "save")
    /\ UNCHANGED <<lock, pairingSecret, hasKey, stored, nextSecret, bt,
                   btServices, cachedMe, crashed, pairPc, pairRet,
                   pairGen, pairCount, pairSaved, stopPc, stopSec,
                   stopCalls, startPc, radioFault, halfSeen, bare,
                   ioLocked, nextReq, kind, callerPc, callerRes,
                   callerGot, chan, callbacks, wSecret, wLate, hSecret,
                   sPc, sMsg, sSecret, recvLeft, sent, placed, buffered,
                   dropped, drained, wPulled, arn, arnStored,
                   bufferedUnder>>

\* kr.SavePairing(*pairingSecret): an error is only logged.
HSave(t) ==
    /\ ~crashed
    /\ hPc[t] = "save"
    /\ \E ok \in BOOLEAN :
         /\ stored' = (IF ok THEN hSecret[t] ELSE stored)
         /\ arnStored' = (IF ok /\ arn[hSecret[t]] THEN hSecret[t] ELSE arnStored)
    /\ HCont(t, "drain")
    /\ UNCHANGED <<lock, pairingSecret, hasKey, nextSecret, bt, btServices,
                   cachedMe, outgoingQueue, crashed, pairPc, pairRet,
                   pairGen, pairCount, pairSaved, stopPc, stopSec,
                   stopCalls, startPc, radioFault, halfSeen, bare,
                   ioLocked, nextReq, kind, callerPc, callerRes,
                   callerGot, chan, callbacks, wSecret, wLate, hSecret,
                   hSnap, hDone, hFail, sPc, sMsg, sSecret, recvLeft,
                   sent, placed, buffered, dropped, drained, wPulled,
                   arn, bufferedUnder>>

\* A faulty loop that walks the snapshot from its end (the variant
\* C8_DrainInOrder must reject).
nextQueuedFromEnd(snap, done) == snap[Len(snap) - Len(done)]

\* for _, queuedMessage := range queue: the element the loop takes next,
\* given the snapshot and what was already re-submitted.
nextQueued(snap, done) == snap[Len(done) + 1]

\* One turn of the loop (err = client.sendMessage(queuedMessage), a failure
\* is logged and the loop goes on), or its end: the wrapped-key ciphertext
\* carries no payload, so handleCiphertext returns err.
HDrain(t) ==
    /\ ~crashed
    /\ hPc[t] = "drain" /\ sPc[t] = "idle"
    /\ IF Len(hDone[t]) < Len(hSnap[t])
       THEN LET m == nextQueued(hSnap[t], hDone[t]) IN
            /\ hDone' = [hDone EXCEPT ![t] = Append(@, m)]
            /\ sMsg' = [sMsg EXCEPT ![t] = m]
            /\ sPc' = [sPc EXCEPT ![t] = "getps"]
            /\ HCont(t, "drain")
       ELSE /\ HReturn(t, hErr[t])
            /\ UNCHANGED <<hDone, sMsg, sPc>>
    /\ UNCHANGED <<lock, pairingSecret, hasKey, stored, nextSecret, bt,
                   btServices, cachedMe, outgoingQueue, crashed, pairPc,
                   pairRet, pairGen, pairCount, pairSaved, stopPc,
                   stopSec, stopCalls, startPc, radioFault, halfSeen,
                   bare, ioLocked, nextReq, kind, callerPc, callerRes,
                   callerGot, chan, callbacks, wSecret, wLate, hSecret,
                   hSnap, hFail, sSecret, recvLeft, sent, placed,
                   buffered, dropped, drained, wPulled, arn, arnStored,
                   bufferedUnder>>

\* pairingSecret.DecryptMessage (ErrWaitingForKey without a key, an error
\* for a ciphertext made under another secret's key), the
\* json.Unmarshal of handleMessage and its "if response.SNSEndpointARN != nil".
HDecrypt(t) ==
    /\ ~crashed
    /\ hPc[t] = "decrypt"
    /\ IF ~hasKey[hSecret[t]] THEN HReturn(t, "waiting")
       ELSE IF ctSecret(t) # hSecret[t] THEN HReturn(t, "err")
       ELSE IF hCt[t].k = "resp" THEN HCont(t, "deliver")
       ELSE IF hCt[t].k = "arn" THEN HCont(t, "arn")
       ELSE HReturn(t, "err")
    /\ UNCHANGED <<lock, pairingSecret, hasKey, stored, nextSecret, bt,
                   btServices, cachedMe, outgoingQueue, crashed, pairPc,
                   pairRet, pairGen, pairCount, pairSaved, stopPc,
                   stopSec, stopCalls, startPc, radioFault, halfSeen,
                   bare, ioLocked, nextReq, kind, callerPc, callerRes,
                   callerGot, chan, callbacks, wSecret, wLate, hSecret,
                   hSnap, hDone, hFail, sPc, sMsg, sSecret, recvLeft,
                   sent, placed, buffered, dropped, drained, wPulled,
                   arn, arnStored, bufferedUnder>>

\* A faulty update that never reaches the secret (the variant
\* C19_EndpointUpdateApplied must reject).
applyArnNever(a, active) == a

\* client.pairingSecret.SetSNSEndpointARN(response.SNSEndpointARN), guarded
\* by "if client.pairingSecret != nil".
applyArn(a, active) == IF active = NoSecret THEN a ELSE [a EXCEPT ![active] = TRUE]

\* client.Lock(); if client.pairingSecret != nil { SetSNSEndpointARN;
\* kr.SavePairing(*client.pairingSecret) }; client.Unlock().  The result of
\* SavePairing is dropped.
HArn(t) ==
    /\ ~crashed
    /\ hPc[t] = "arn"
    /\ lock = "free"
    /\ arn' = applyArn(arn, pairingSecret)
    /\ \E ok \in BOOLEAN :
         IF ok /\ pairingSecret # NoSecret
         THEN /\ stored' = pairingSecret
              /\ arnStored' = (IF arn'[pairingSecret] THEN pairingSecret ELSE arnStored)
         ELSE UNCHANGED <<stored, arnStored>>
    /\ ioLocked' = (IF pairingSecret # NoSecret
                    THEN ioLocked \cup {"SavePairing"} ELSE ioLocked)
    /\ HCont(t, "deliver")
    /\ UNCHANGED <<lock, pairingSecret, hasKey, nextSecret, bt, btServices,
                   cachedMe, outgoingQueue, crashed, pairPc, pairRet,
                   pairGen, pairCount, pairSaved, stopPc, stopSec,
                   stopCalls, startPc, radioFault, halfSeen, bare,
                   nextReq, kind, callerPc, callerRes, callerGot, chan,
                   callbacks, wSecret, wLate, hSecret, hSnap, hDone,
                   hFail, sPc, sMsg, sSecret, recvLeft, sent, placed,
                   buffered, dropped, drained, wPulled, bufferedUnder>>

\* A faulty lookup that takes the most recently registered channel whatever
\* its RequestID (the variant C10_CorrelationUnique must reject).
deliverToNewest(c, id) == IF c = <<>> THEN {} ELSE {c[1].ch}

\* handleMessage: the channel the Response is sent on (Get by
\* response.RequestID), or none.
deliverTo(c, id) == IF lruHas(c, id) THEN {lruValue(c, id)} ELSE {}

\* client.Lock(); Get; requestCb <- &response; Remove; client.Unlock().  A
\* send on a full channel would block with the lock held.
HDeliver(t) ==
    /\ ~crashed
    /\ hPc[t] = "deliver"
    /\ lock = "free"
    /\ LET id == hCt[t].id
           to == deliverTo(callbacks, id) IN
       IF \E ch \in to : Len(chan[ch]) >= 1
       THEN /\ lock' = "Blocked"
            /\ UNCHANGED <<chan, placed, dropped, callbacks, hPc, hCt, hErr, wPc, wErr, wBatch>>
       ELSE /\ chan' = [ch \in Reqs |-> IF ch \in to THEN Append(chan[ch], Response(id)) ELSE chan[ch]]
            /\ placed' = placed \cup {[id |-> id, ch |-> ch] : ch \in to}
            /\ dropped' = (IF to = {}
                           THEN dropped \cup {[id |-> id, late |-> \E p \in placed : p.id = id]}
                           ELSE dropped)
            /\ callbacks' = lruRemove(callbacks, id)
            /\ HReturn(t, "nil")
            /\ UNCHANGED lock
    /\ UNCHANGED <<pairingSecret, hasKey, stored, nextSecret, bt, btServices,
                   cachedMe, outgoingQueue, crashed, pairPc, pairRet,
                   pairGen, pairCount, pairSaved, stopPc, stopSec,
                   stopCalls, startPc, radioFault, halfSeen, bare,
                   ioLocked, nextReq, kind, callerPc, callerRes,
                   callerGot, wSecret, wLate, hSecret, hSnap, hDone,
                   hFail, sPc, sMsg, sSecret, recvLeft, sent, buffered,
                   drained, wPulled, arn, arnStored, bufferedUnder>>

\* The radio reader: for ciphertext := range readChan { ec.handleCiphertext }
BtRead(C) ==
    /\ ~crashed
    /\ bt = "on" /\ hPc[BtThread] = "idle" /\ recvLeft > 0
    /\ \E ct \in C : hCt' = [hCt EXCEPT ![BtThread] = ct]
    /\ hPc' = [hPc EXCEPT ![BtThread] = "getps"]
    /\ recvLeft' = recvLeft - 1
    /\ UNCHANGED <<lock, pairingSecret, hasKey, stored, nextSecret, bt,
                   btServices, cachedMe, outgoingQueue, crashed, pairPc,
                   pairRet, pairGen, pairCount, pairSaved, stopPc,
                   stopSec, stopCalls, startPc, radioFault, halfSeen,
                   bare, ioLocked, nextReq, kind, callerPc, callerRes,
                   callerGot, chan, callbacks, wPc, wSecret, wErr,
                   wBatch, wLate, hSecret, hErr, hSnap, hDone, hFail,
                   sPc, sMsg, sSecret, sent, placed, buffered, dropped,
                   drained, wPulled, arn, arnStored, bufferedUnder>>

\* ------------------------------------------- sendRequestAndReceiveResponses
\* pairingSecret := client.getPairingSecret(); nil: return an error (to the
\* goroutine of tryRequest, which logs it).
WGetSecret(r) ==
    /\ ~crashed
    /\ wPc[r] = "getps"
    /\ lock = "free"
    /\ halfSeen' = Observe("request")
    /\ wSecret' = [wSecret EXCEPT ![r] = pairingSecret]
    /\ wPc' = [wPc EXCEPT ![r] = IF pairingSecret = NoSecret THEN "done" ELSE "register"]
    /\ UNCHANGED <<lock, pairingSecret, hasKey, stored, nextSecret, bt,
                   btServices, cachedMe, outgoingQueue, crashed, pairPc,
                   pairRet, pairGen, pairCount, pairSaved, stopPc,
                   stopSec, stopCalls, startPc, radioFault, bare,
                   ioLocked, nextReq, kind, callerPc, callerRes,
                   callerGot, chan, callbacks, wErr, wBatch, wLate, hPc,
                   hCt, hSecret, hErr, hSnap, hDone, hFail, sPc, sMsg,
                   sSecret, recvLeft, sent, placed, buffered, dropped,
                   drained, wPulled, arn, arnStored, bufferedUnder>>

\* client.Lock(); requestCallbacksByRequestID.Add(request.RequestID, cb);
\* client.Unlock(); then err = client.sendMessage(requestJson) begins.
WRegister(r) ==
    /\ ~crashed
    /\ wPc[r] = "register"
    /\ lock = "free"
    /\ callbacks' = lruAdd(callbacks, RequestID(r), r)
    /\ wPc' = [wPc EXCEPT ![r] = "send"]
    /\ sMsg' = [sMsg EXCEPT ![r] = r]
    /\ sPc' = [sPc EXCEPT ![r] = "getps"]
    /\ UNCHANGED <<lock, pairingSecret, hasKey, stored, nextSecret, bt,
                   btServices, cachedMe, outgoingQueue, crashed, pairPc,
                   pairRet, pairGen, pairCount, pairSaved, stopPc,
                   stopSec, stopCalls, startPc, radioFault, halfSeen,
                   bare, ioLocked, nextReq, kind, callerPc, callerRes,
                   callerGot, chan, wSecret, wErr, wBatch, wLate, hPc,
                   hCt, hSecret, hErr, hSnap, hDone, hFail, sSecret,
                   recvLeft, sent, placed, buffered, dropped, drained,
                   wPulled, arn, arnStored, bufferedUnder>>

\* receive(): pairingSecret.ReadQueue() fails (RecvError) or returns a batch
\* of ciphertexts, each handed to handleCiphertext in turn.
WReceive(r, C, n) ==
    /\ ~crashed
    /\ wPc[r] = "recv"
    /\ drained' = [drained EXCEPT ![r] = TRUE]
    /\ \/ /\ wErr' = [wErr EXCEPT ![r] = "recverr"]
          /\ wPc' = [wPc EXCEPT ![r] = "check"]
          /\ wPulled' = [wPulled EXCEPT ![r] = 0]
          /\ UNCHANGED <<wBatch, hPc, hCt, hErr, recvLeft>>
       \/ \E b \in BatchesOf(C, Min(n, recvLeft)) :
            /\ wErr' = [wErr EXCEPT ![r] = "nil"]
            /\ wPulled' = [wPulled EXCEPT ![r] = Len(b)]
            /\ wBatch' = [wBatch EXCEPT ![r] = b]
            /\ recvLeft' = recvLeft - Len(b)
            /\ hErr' = [hErr EXCEPT ![r] = "nil"]
            /\ IF b = <<>>
               THEN /\ wPc' = [wPc EXCEPT ![r] = "check"]
                    /\ UNCHANGED <<hPc, hCt>>
               ELSE /\ wPc' = [wPc EXCEPT ![r] = "handle"]
                    /\ hPc' = [hPc EXCEPT ![r] = "getps"]
                    /\ hCt' = [hCt EXCEPT ![r] = Head(b)]
    /\ UNCHANGED <<lock, pairingSecret, hasKey, stored, nextSecret, bt,
                   btServices, cachedMe, outgoingQueue, crashed, pairPc,
                   pairRet, pairGen, pairCount, pairSaved, stopPc,
                   stopSec, stopCalls, startPc, radioFault, halfSeen,
                   bare, ioLocked, nextReq, kind, callerPc, callerRes,
                   callerGot, chan, callbacks, wSecret, wLate, hSecret,
                   hSnap, hDone, hFail, sPc, sMsg, sSecret, sent, placed,
                   buffered, dropped, arn, arnStored, bufferedUnder>>

\* receive() never assigns its result numReceived: n is 0 in every turn.
numReceived(b) == 0

\* The loop's exit test, after the unlocked
\* client.requestCallbacksByRequestID.Get(request.RequestID).
loopBreaks(err, n, late, requestPending) ==
    err # "nil" \/ (n = 0 /\ late) \/ ~requestPending

WCheck(r) ==
    /\ ~crashed
    /\ wPc[r] = "check"
    /\ callbacks' = lruTouch(callbacks, RequestID(r))
    /\ bare' = bare \cup {"Get"}
    /\ \E late \in {wLate[r], TRUE} :
         /\ wLate' = [wLate EXCEPT ![r] = late]
         /\ wPc' = [wPc EXCEPT ![r] =
               IF loopBreaks(wErr[r], numReceived(wBatch[r]), late,
                             lruHas(callbacks, RequestID(r)))
               THEN "exit" ELSE "recv"]
    /\ UNCHANGED <<lock, pairingSecret, hasKey, stored, nextSecret, bt,
                   btServices, cachedMe, outgoingQueue, crashed, pairPc,
                   pairRet, pairGen, pairCount, pairSaved, stopPc,
                   stopSec, stopCalls, startPc, radioFault, halfSeen,
                   ioLocked, nextReq, kind, callerPc, callerRes,
                   callerGot, chan, wSecret, wErr, wBatch, hPc, hCt,
                   hSecret, hErr, hSnap, hDone, hFail, sPc, sMsg,
                   sSecret, recvLeft, sent, placed, buffered, dropped,
                   drained, wPulled, arn, arnStored, bufferedUnder>>

\* client.Lock(); if cb, ok := Get(RequestID); ok { cb <- nil; Remove };
\* client.Unlock()
WExit(r) ==
    /\ ~crashed
    /\ wPc[r] = "exit"
    /\ lock = "free"
    /\ LET to == deliverTo(callbacks, RequestID(r)) IN
       IF \E ch \in to : Len(chan[ch]) >= 1
       THEN /\ lock' = "Blocked"
            /\ UNCHANGED <<chan, callbacks, wPc>>
       ELSE /\ chan' = [ch \in Reqs |-> IF ch \in to THEN Append(chan[ch], NilResponse) ELSE chan[ch]]
            /\ callbacks' = lruRemove(callbacks, RequestID(r))
            /\ wPc' = [wPc EXCEPT ![r] = "done"]
            /\ UNCHANGED lock
    \* the local n is gone once the worker has returned
    /\ wPulled' = [wPulled EXCEPT ![r] = IF wPc'[r] = "done" THEN 0 ELSE @]
    /\ UNCHANGED <<pairingSecret, hasKey, stored, nextSecret, bt, btServices,
                   cachedMe, outgoingQueue, crashed, pairPc, pairRet,
                   pairGen, pairCount, pairSaved, stopPc, stopSec,
                   stopCalls, startPc, radioFault, halfSeen, bare,
                   ioLocked, nextReq, kind, callerPc, callerRes,
                   callerGot, wSecret, wErr, wBatch, wLate, hPc, hCt,
                   hSecret, hErr, hSnap, hDone, hFail, sPc, sMsg,
                   sSecret, recvLeft, sent, placed, buffered, dropped,
                   drained, arn, arnStored, bufferedUnder>>

\* Start, after ec.Unlock(): if ec.getPairingSecret() != nil { ec.RequestMe() }
StartRequestMe ==
    /\ ~crashed
    /\ startPc = "reqme"
    /\ lock = "free"
    /\ halfSeen' = Observe("Start")
    /\ IF pairingSecret # NoSecret
       THEN /\ nextReq \in Reqs
            /\ startPc' = "waitme"
            /\ nextReq' = nextReq + 1
            /\ kind' = [kind EXCEPT ![nextReq] = "me"]
            /\ callerPc' = [callerPc EXCEPT ![nextReq] = "waiting"]
            /\ wPc' = [wPc EXCEPT ![nextReq] = "getps"]
       ELSE /\ startPc' = "done"
            /\ UNCHANGED <<nextReq, kind, callerPc, wPc>>
    /\ UNCHANGED <<lock, pairingSecret, hasKey, stored, nextSecret, bt,
                   btServices, cachedMe, outgoingQueue, crashed, pairPc,
                   pairRet, pairGen, pairCount, pairSaved, stopPc,
                   stopSec, stopCalls, radioFault, bare, ioLocked,
                   callerRes, callerGot, chan, callbacks, wSecret, wErr,
                   wBatch, wLate, hPc, hCt, hSecret, hErr, hSnap, hDone,
                   hFail, sPc, sMsg, sSecret, recvLeft, sent, placed,
                   buffered, dropped, drained, wPulled, arn, arnStored,
                   bufferedUnder>>

\* ec.RequestMe() has returned: Start returns.
StartReturn ==
    /\ ~crashed
    /\ startPc = "waitme"
    /\ callerPc[1] = "done"
    /\ startPc' = "done"
    /\ UNCHANGED <<lock, pairingSecret, hasKey, stored, nextSecret, bt,
                   btServices, cachedMe, outgoingQueue, crashed, pairPc,
                   pairRet, pairGen, pairCount, pairSaved, stopPc,
                   stopSec, stopCalls, radioFault, halfSeen, bare,
                   ioLocked, nextReq, kind, callerPc, callerRes,
                   callerGot, chan, callbacks, wPc, wSecret, wErr,
                   wBatch, wLate, hPc, hCt, hSecret, hErr, hSnap, hDone,
                   hFail, sPc, sMsg, sSecret, recvLeft, sent, placed,
                   buffered, dropped, drained, wPulled, arn, arnStored,
                   bufferedUnder>>

\* ------------------------------------------------------------------ Init
Init ==
    /\ lock = "free"
    /\ pairingSecret = NoSecret
    /\ stored \in {NoSecret, 1}
    /\ hasKey \in {h \in [Secrets -> BOOLEAN] :
                      \A s \in Secrets : h[s] => (s = 1 /\ stored = 1)}
    /\ nextSecret = 2
    /\ bt = "nil"
    /\ btServices = {}
    /\ cachedMe = 0
    /\ outgoingQueue = <<>>
    /\ crashed = FALSE
    /\ pairPc = "idle" /\ pairRet = NoSecret /\ pairGen = NoSecret
    /\ pairCount = 0 /\ pairSaved = FALSE
    /\ stopPc = "idle" /\ stopSec = NoSecret /\ stopCalls = 0
    /\ startPc = "idle"
    /\ radioFault = FALSE
    /\ halfSeen = {}
    /\ bare = {}
    /\ ioLocked = {}
    /\ nextReq = 1
    /\ kind = [r \in Reqs |-> "me"]
    /\ callerPc = [r \in Reqs |-> "idle"]
    /\ callerRes = [r \in Reqs |-> "none"]
    /\ callerGot = [r \in Reqs |-> NoValue]
    /\ chan = [r \in Reqs |-> <<>>]
    /\ callbacks = <<>>
    /\ wPc = [t \in Threads |-> "idle"]
    /\ wSecret = [t \in Threads |-> NoSecret]
    /\ wErr = [t \in Threads |-> "nil"]
    /\ wBatch = [t \in Threads |-> <<>>]
    /\ wLate = [t \in Threads |-> FALSE]
    /\ hPc = [t \in Threads |-> "idle"]
    /\ hCt = [t \in Threads |-> Ct("key", 0)]
    /\ hSecret = [t \in Threads |-> NoSecret]
    /\ hErr = [t \in Threads |-> "nil"]
    /\ hSnap = [t \in Threads |-> <<>>]
    /\ hDone = [t \in Threads |-> <<>>]
    /\ hFail = [t \in Threads |-> {}]
    /\ sPc = [t \in Threads |-> "idle"]
    /\ sMsg = [t \in Threads |-> 0]
    /\ sSecret = [t \in Threads |-> NoSecret]
    /\ recvLeft = MaxRecv
    /\ sent = [r \in Reqs |-> <<>>]
    /\ placed = {}
    /\ buffered = {}
    /\ bufferedUnder = [r \in Reqs |-> NoSecret]
    /\ dropped = {}
    /\ drained = [t \in Threads |-> FALSE]
    /\ wPulled = [t \in Threads |-> 0]
    /\ arn = [s \in Secrets |-> FALSE]
    /\ arnStored = NoSecret

Kinds == {"me", "sign", "list"}

\* ------------------------------------------------------- specifications
StartSteps == StartLock \/ StartBluetooth \/ StartRequestMe \/ StartReturn
PairSteps == PairLock \/ PairDeactivate \/ PairGenerate \/ PairActivate \/ PairReturn
StopSteps == StopRead \/ StopRemove
CallerSteps(r) == CallerTimeout(r) \/ CallerReceive(r) \/ CallerCache(r)
SendSteps(t) == SendGetSecret(t) \/ SendEncrypt(t) \/ SendEnqueue(t) \/ SendWrite(t)

\* The whole client.
Next ==
    \/ StartSteps \/ PairSteps \/ StopSteps
    \/ \E r \in Reqs, k \in Kinds : RequestBegin(r, k)
    \/ \E r \in Reqs : CallerSteps(r)
    \/ \E r \in Reqs : WGetSecret(r) \/ WRegister(r) \/ WReceive(r, Ciphertexts, MaxBatch)
                           \/ WCheck(r) \/ WExit(r)
    \/ \E t \in Threads : SendSteps(t)
    \/ \E t \in Threads : HGetSecret(t) \/ HUnwrap(t) \/ HSwap(t) \/ HSave(t)
                              \/ HDrain(t) \/ HDecrypt(t) \/ HArn(t) \/ HDeliver(t)
    \/ BtRead(Ciphertexts)

Spec == Init /\ [][Next]_vars

\* The pairing lifecycle: Pair, Stop and Start, with the requests' and the
\* radio reader's reads of the pairing (the reader is fed wrapped keys).
KeyCts == {Ct("key", 0)}
LifeReqs == 1

NextLife ==
    \/ StartSteps \/ PairSteps \/ StopSteps
    \/ \E r \in 1..LifeReqs : RequestBegin(r, "me") \/ WGetSecret(r) \/ CallerTimeout(r)
    \/ BtRead(KeyCts)
    \/ HGetSecret(BtThread) \/ HUnwrap(BtThread) \/ HSwap(BtThread)
    \/ HSave(BtThread) \/ HDrain(BtThread)

SpecLife == Init /\ [][NextLife]_vars

\* The typed requests and the correlator: CorrReqs concurrent requests,
\* Responses arriving for any RequestID on the cloud relay.
CorrReqs == 2
RespCts == {Ct("resp", i) : i \in (1..CorrReqs) \cup {StrayId}}

NextReq ==
    \/ StartSteps
    \/ \E r \in 1..CorrReqs, k \in Kinds : RequestBegin(r, k)
    \/ \E r \in Reqs : CallerSteps(r)
    \/ \E r \in Reqs : WGetSecret(r) \/ WRegister(r) \/ WReceive(r, RespCts, MaxBatch)
                           \/ WCheck(r) \/ WExit(r)
    \/ \E t \in Threads : SendSteps(t)
    \/ \E t \in Threads : HGetSecret(t) \/ HUnwrap(t) \/ HDecrypt(t) \/ HDeliver(t)

SpecReq == Init /\ [][NextReq]_vars

\* The Outgoing Queue: senders and the ingestion of wrapped keys.
QueueReqs == 2

NextQueue ==
    \/ StartSteps
    \/ \E r \in 1..QueueReqs : RequestBegin(r, "sign")
    \/ \E r \in Reqs : CallerTimeout(r) \/ CallerReceive(r)
    \/ \E r \in Reqs : WGetSecret(r) \/ WRegister(r) \/ WReceive(r, KeyCts, 1)
                           \/ WCheck(r) \/ WExit(r)
    \/ \E t \in Threads : SendSteps(t)
    \/ \E t \in Threads : HGetSecret(t) \/ HUnwrap(t) \/ HSwap(t) \/ HSave(t)
                              \/ HDrain(t)

SpecQueue == Init /\ [][NextQueue]_vars

\* The Outgoing Queue's capacity: more senders than the queue has room for,
\* each followed up to the return of its sendMessage.
CapReqs == 3

NextCap ==
    \/ StartSteps
    \/ \E r \in 1..CapReqs : RequestBegin(r, "list")
    \/ \E r \in Reqs : CallerTimeout(r)
    \/ \E r \in Reqs : WGetSecret(r) \/ WRegister(r)
    \/ \E t \in Threads : SendSteps(t)

SpecCap == Init /\ [][NextCap]_vars

\* Ingestion: one request, and every kind of ciphertext on the cloud relay.
IngestReqs == 1
IngestCts == {Ct("resp", i) : i \in 1..IngestReqs}
               \cup {Ct("arn", i) : i \in (1..IngestReqs) \cup {StrayId}}
               \cup {Ct("bad", 0), Ct("malformed", 0), Ct("uerr", 0)}

NextIngest ==
    \/ StartSteps
    \/ \E r \in 1..IngestReqs, k \in Kinds : RequestBegin(r, k)
    \/ \E r \in Reqs : CallerSteps(r)
    \/ \E r \in Reqs : WGetSecret(r) \/ WRegister(r) \/ WReceive(r, IngestCts, MaxBatch)
                           \/ WCheck(r) \/ WExit(r)
    \/ \E t \in Threads : SendSteps(t)
    \/ \E t \in Threads : HGetSecret(t) \/ HUnwrap(t) \/ HDecrypt(t) \/ HArn(t)
                              \/ HDeliver(t)

SpecIngest == Init /\ [][NextIngest]_vars

\* The Cached Profile: a profile fetch, from its send (queued until the
\* wrapped key arrives) to its answer, while Pair() rotates the pairing.
CacheReqs == 1
CacheCts == {Ct("key", 0)} \cup {Ct("resp", i) : i \in 1..CacheReqs}

NextCache ==
    \/ StartSteps \/ PairSteps
    \/ \E r \in 1..CacheReqs : RequestBegin(r, "me")
    \/ \E r \in Reqs : CallerSteps(r)
    \/ \E r \in Reqs : WGetSecret(r) \/ WRegister(r) \/ WReceive(r, CacheCts, 1)
                           \/ WCheck(r) \/ WExit(r)
    \/ \E t \in Threads : SendSteps(t)
    \/ \E t \in Threads : HGetSecret(t) \/ HUnwrap(t) \/ HSwap(t) \/ HSave(t)
                              \/ HDrain(t) \/ HDecrypt(t) \/ HDeliver(t)

SpecCache == Init /\ [][NextCache]_vars

\* Re-pairing against the drain of the Outgoing Queue: one request buffered
\* until the wrapped key arrives, keys arriving on the cloud relay and on
\* the radio, and Pair() rotating the pairing meanwhile.  The worker is
\* followed through its first receive().
RekeyReqs == 1

NextRekey ==
    \/ StartSteps \/ PairSteps
    \/ \E r \in 1..RekeyReqs : RequestBegin(r, "sign")
    \/ \E r \in Reqs : CallerTimeout(r)
    \/ \E r \in Reqs : WGetSecret(r) \/ WRegister(r) \/ WReceive(r, KeyCts, 1)
    \/ \E t \in Threads : SendSteps(t)
    \/ \E t \in Threads : HGetSecret(t) \/ HUnwrap(t) \/ HSwap(t) \/ HSave(t)
                              \/ HDrain(t)
    \/ BtRead(KeyCts)

SpecRekey == Init /\ [][NextRekey]_vars

\* ================================================================ claims
\* What a typed operation can return as a failure (a non-nil error).
Failures == {"timeout", "unpaired", "noanswer"}

\* No goroutine of the client is at work.
Quiescent ==
    \A t \in Threads : wPc[t] \in {"idle", "done"} /\ hPc[t] = "idle" /\ sPc[t] = "idle"

IsPrefix(s, q) == Len(s) <= Len(q) /\ SubSeq(q, 1, Len(s)) = s

\* C1: a typed request made while no PairingSecret is active returns the
\* distinct Unpaired error to its caller (and so not by its timer expiring).
C1_UnpairedFailsAtOnce ==
    \A r \in Reqs :
        (callerPc[r] = "done" /\ wPc[r] = "done" /\ wSecret[r] = NoSecret)
            => callerRes[r] = "unpaired"

\* C2: once the key is established and every goroutine has finished, no
\* message buffered by a Queued send is left in the Outgoing Queue.
C2_NoMessageLeftQueued ==
    (Quiescent /\ ~crashed /\ pairingSecret # NoSecret /\ hasKey[pairingSecret])
        => outgoingQueue = <<>>

\* C3: after Start found no radio driver, no step of the client ends the
\* process.
C3_RadioAbsentNoCrash ==
    (startPc \in {"reqme", "waitme", "done"} /\ bt = "nil") => ~crashed

\* C4: a caller that read the "no answer" sentinel from its channel gets a
\* failure, never a success with an empty result.
C4_SentinelIsFailure ==
    \A r \in Reqs :
        (callerPc[r] = "done" /\ callerGot[r] = NilResponse)
            => callerRes[r] \in Failures

\* C5: no operation reads the pairing state while Pair() is part-way
\* through its rotation.
C5_PairAtomic == halfSeen = {}

C7_PairReturnsFresh ==
    /\ ~crashed
    /\ (pairPc = "idle" /\ pairCount >= 1)
         => /\ pairGen # NoSecret
            /\ pairRet = pairGen
            /\ pairingSecret = pairGen
            /\ pairSaved => stored = pairGen

\* C8: the drain loop re-submits the swapped-out messages in enqueue order
\* (what it has re-submitted is always a prefix of the snapshot), a loop
\* that has ended has re-submitted all of them whatever failed, and the
\* Outgoing Queue is empty in the state the swap produces.
C8_DrainState ==
    \A t \in Threads :
        /\ IsPrefix(hDone[t], hSnap[t])
        /\ hPc[t] \notin {"save", "drain"} => hDone[t] = hSnap[t]

C8_SwapEmpties ==
    \A t \in Threads : (hPc[t] = "swap" /\ hPc'[t] = "save") => outgoingQueue' = <<>>

C8_DrainInOrder == []C8_DrainState /\ [][C8_SwapEmpties]_vars

C8_Witness ==
    \E t \in Threads :
        /\ ~crashed /\ hPc[t] \notin {"swap", "save", "drain"}
        /\ Len(hSnap[t]) = 2 /\ hDone[t] = hSnap[t]
        /\ hSnap[t][1] \in hFail[t]
        /\ Len(sent[hSnap[t][2]]) = 1

\* C9: a request to whose channel no Response was ever delivered returns a
\* failure to its caller.
C9_TimeoutFailure ==
    \A r \in Reqs :
        (callerPc[r] = "done" /\ ~\E p \in placed : p.ch = r)
            => callerRes[r] \in Failures

\* C10: a Response with RequestID id is put on at most one channel, the one
\* registered under id, and no caller reads a Response with another id.
C10_CorrelationUnique ==
    /\ \A p \in placed : p.id = RequestID(p.ch)
    /\ \A p, q \in placed : p.id = q.id => p.ch = q.ch
    /\ \A r \in Reqs : \A i \in DOMAIN chan[r] :
          chan[r][i].nil \/ chan[r][i].id = RequestID(r)
    /\ \A r \in Reqs :
          callerGot[r] = NoValue \/ callerGot[r].nil \/ callerGot[r].id = RequestID(r)

C10_Witness ==
    /\ placed = {[id |-> RequestID(2), ch |-> 2]}
    /\ lruHas(callbacks, RequestID(1))
    /\ callerGot[2] = Response(RequestID(2))

\* C11: each channel gets at most one value (Response or sentinel) in its
\* lifetime and no send on a channel ever blocks; and a delivery for a
\* RequestID with no entry changes no correlator entry and no channel.
C11_OneValue ==
    /\ lock # "Blocked"
    /\ \A r \in Reqs :
          Len(chan[r]) + (IF callerGot[r] = NoValue THEN 0 ELSE 1) <= 1

C11_NoEntryNoop ==
    \A t \in Threads :
        (hPc[t] = "deliver" /\ hPc'[t] # "deliver" /\ ~lruHas(callbacks, hCt[t].id))
            => (callbacks' = callbacks /\ chan' = chan)

C11_DeliveryIdempotent == []C11_OneValue /\ [][C11_NoEntryNoop]_vars

C11_Witness ==
    /\ [id |-> RequestID(1), late |-> TRUE] \in dropped
    /\ callerGot[1] = Response(RequestID(1))
    /\ chan[1] = <<>>

\* C12: the Outgoing Queue never holds more than its capacity; a send that
\* waits for the key while the queue is full leaves the queue as it is and
\* still returns SendQueued to its caller.
C12_QueueBounded == Len(outgoingQueue) <= QueueCap

C12_FullDrops ==
    \A t \in Threads :
        (sPc[t] = "enqueue" /\ sPc'[t] = "idle" /\ Len(outgoingQueue) = QueueCap)
            => /\ outgoingQueue' = outgoingQueue
               /\ IF hPc[t] = "drain" THEN hErr'[t] = "queued" ELSE wPc'[t] = "recv"

C12_QueueCapped == []C12_QueueBounded /\ [][C12_FullDrops]_vars

C12_Witness ==
    /\ Len(outgoingQueue) = QueueCap
    /\ \E r \in Reqs :
          /\ wPc[r] = "recv" /\ sPc[r] = "idle"
          /\ wSecret[r] # NoSecret /\ ~hasKey[wSecret[r]]
          /\ r \notin buffered

\* C13: no goroutine reads or writes the shared state without holding the
\* lock.
C13_AllUnderLock == bare = {}

\* C14: no blocking I/O call is made while the lock is held.
C14_NoIoUnderLock == ioLocked = {}

\* C15: once a worker that registered its request has returned, the
\* correlator holds no entry for the request's RequestID.
C15_NoEntryAfterWorker ==
    \A r \in Reqs :
        (wPc[r] = "done" /\ wSecret[r] # NoSecret)
            => ~lruHas(callbacks, RequestID(r))

\* C16: a worker that registered its request has called receive() at least
\* once by the time it returns, whatever its send returned.
C16_DrainsAfterSendFailure ==
    \A r \in Reqs :
        (wPc[r] = "done" /\ wSecret[r] # NoSecret) => drained[r]

\* C17: the drain loop of a worker never ends because of the error of a
\* single ciphertext: when it has ended, the error it ended with is none or
\* that of ReadQueue.
C17_CiphertextErrorContained ==
    \A r \in Reqs :
        wPc[r] \in {"exit", "done"} => wErr[r] \in {"nil", "recverr"}

\* C18: a drain loop that ended with no error and with its request still
\* registered (so on the deadline) pulled no ciphertext in its last drain.
C18_DeadlineOnlyWhenIdle ==
    \A r \in Reqs :
        (wPc[r] = "exit" /\ wErr[r] = "nil" /\ lruHas(callbacks, RequestID(r)))
            => wPulled[r] = 0

\* C19: the step that handles a Response's endpoint update while a secret
\* is active sets the endpoint on the active secret and saves it (the
\* durable copy then carries the endpoint, unless the save failed and left
\* the store as it was), with or without an entry for the RequestID; it
\* leaves the correlator and the channels alone and goes on to the same
\* delivery as for a Response without the update.
StoredHasArn(st, a, as) == st # NoSecret /\ a[st] /\ as = st

C19_UpdateStep ==
    \A t \in Threads :
        (hPc[t] = "arn" /\ hPc'[t] # "arn" /\ pairingSecret # NoSecret)
            => /\ arn'[pairingSecret]
               /\ \/ stored' = pairingSecret /\ StoredHasArn(stored', arn', arnStored')
                  \/ UNCHANGED <<stored, arnStored>>
               /\ callbacks' = callbacks /\ chan' = chan
               /\ hPc'[t] = "deliver" /\ hCt'[t] = hCt[t]

C20_CacheFresh == cachedMe # 0 => wSecret[cachedMe] = pairingSecret

\* C21: a message that was buffered in the Outgoing Queue is submitted to
\* the transport only under the secret that was active when it was
\* buffered.
C21_SentUnderBufferingSecret ==
    \A m \in Reqs :
        bufferedUnder[m] # NoSecret
            => \A i \in DOMAIN sent[m] : sent[m][i] = bufferedUnder[m]
====
